---- MODULE Spec2Model ----
(***************************************************************************)
(* A model of the collectors of dgx-spark-prometheus (package collectors): *)
(* CPUCollector (usage delta state behind a mutex, thermal zone search,    *)
(* per-core frequency mean), MemoryCollector, GPUCollector,                *)
(* NetworkCollector and DiskCollector.                                     *)
(*                                                                         *)
(* Text is modelled as sequences of one-character strings, so that         *)
(* trimming, prefix tests, splitting and number parsing are computed.      *)
(* uint64 arithmetic is modelled at width WordBits (values modulo          *)
(* 2^WordBits).  float64(x) of an unsigned integer rounds x to MantBits   *)
(* significant bits, to nearest and ties to even, as the conversion does   *)
(* at 53 bits; a float64 quotient is kept as the exact fraction num/den of *)
(* the converted operands (times 100 for a percentage).                    *)
(***************************************************************************)
EXTENDS Integers, Sequences, FiniteSets, TLC

VARIABLES
    prevTotal,   \* CPUCollector.prevTotal
    prevIdle,    \* CPUCollector.prevIdle
    mu,          \* CPUCollector.mu: 0 when free, else the caller holding it
    pc,          \* per Collect caller: where the call stands
    loc,         \* per Collect caller: the locals of readCPUUsage
    out,         \* per Collect caller: the samples sent on ch by this call
    calls,       \* number of readCPUUsage calls started so far (read order)
    prevSeq,     \* history: read order of the reading now stored in prev*
    lastOK,      \* history: the latest reading that passed the field count check
    thermal,     \* /sys/class/thermal: zone index -> [type, temp] files
    cpufreq,     \* /sys/devices/system/cpu: core index -> scaling_cur_freq
    meminfo,     \* /proc/meminfo
    gpuTool,     \* the outcome of the nvidia-smi invocation
    netfs,       \* /sys/class/net: interface -> operstate and statistics
    diskstats,   \* /proc/diskstats
    kernel,      \* the kernel's cumulative tick counters behind /proc/stat
    probe        \* a single Collect call of a stateless collector: whether it
                 \* ran, and the samples it sent on ch

vars == <<prevTotal, prevIdle, mu, pc, loc, out, calls, prevSeq, lastOK,
          thermal, cpufreq, meminfo, gpuTool, netfs, diskstats, kernel, probe>>

cpuVars == <<prevTotal, prevIdle, mu, pc, loc, out, calls, prevSeq, lastOK>>
fsVars == <<thermal, cpufreq, meminfo, gpuTool, netfs, diskstats, kernel>>

----------------------------------------------------------------------------
(* Bounds of the model *)

\* width of the modelled unsigned integers (the code's uint64 is 64 bits)
WordBits == 8
\* width of the modelled float mantissa (float64 holds 53 bits)
MantBits == 4
\* largest tick value a counter field of /proc/stat takes
MaxTick == 1
\* number of goroutines that may call Collect on the one CPUCollector
NumCallers == 2
\* number of Collect calls in a behaviour
MaxCalls == 3

\* number of thermal zones at the low indices that may exist
NumZones == 3
\* number of cores that may have a cpufreq directory
MaxCores == 4

Mod == 2^WordBits
Callers == 1..NumCallers

----------------------------------------------------------------------------
(* Text *)

Digits == <<"0", "1", "2", "3", "4", "5", "6", "7", "8", "9">>

IsDigit(ch) == \E d \in 1..10 : Digits[d] = ch

DigitVal(ch) == (CHOOSE d \in 1..10 : Digits[d] = ch) - 1

IsSpace(ch) == ch \in {" ", "\n", "\t"}

RECURSIVE Itoa(_)
Itoa(n) == IF n < 10 THEN <<Digits[n + 1]>>
           ELSE Itoa(n \div 10) \o <<Digits[(n % 10) + 1]>>

RECURSIVE TrimLeft(_)
TrimLeft(s) == IF s # <<>> /\ IsSpace(Head(s)) THEN TrimLeft(Tail(s)) ELSE s

RECURSIVE TrimRight(_)
TrimRight(s) == IF s # <<>> /\ IsSpace(s[Len(s)])
                THEN TrimRight(SubSeq(s, 1, Len(s) - 1)) ELSE s

\* strings.TrimSpace
TrimSpace(s) == TrimRight(TrimLeft(s))

\* strings.HasPrefix
HasPrefix(s, p) == Len(s) >= Len(p) /\ SubSeq(s, 1, Len(p)) = p

\* strings.Contains
Contains(s, sub) ==
    \E i \in 0..(Len(s) - Len(sub)) : SubSeq(s, i + 1, i + Len(sub)) = sub

LowerOf(ch) ==
    CASE ch = "C" -> "c" [] ch = "P" -> "p" [] ch = "U" -> "u"
      [] ch = "S" -> "s" [] ch = "O" -> "o" [] ch = "T" -> "t"
      [] OTHER -> ch

\* strings.ToLower
ToLower(s) == [i \in 1..Len(s) |-> LowerOf(s[i])]

RECURSIVE DecValue(_)
DecValue(s) == IF s = <<>> THEN 0
               ELSE DecValue(SubSeq(s, 1, Len(s) - 1)) * 10 + DigitVal(s[Len(s)])

AllDigits(s) == s # <<>> /\ \A i \in 1..Len(s) : IsDigit(s[i])

\* strconv.ParseUint(s, 10, 64): the value and whether err is nil.  A syntax
\* error returns 0; a value out of range returns the largest value.
ParseUint(s) ==
    IF ~AllDigits(s) THEN [v |-> 0, ok |-> FALSE]
    ELSE IF DecValue(s) >= Mod THEN [v |-> Mod - 1, ok |-> FALSE]
    ELSE [v |-> DecValue(s), ok |-> TRUE]

RECURSIVE BitLen(_)
BitLen(x) == IF x = 0 THEN 0 ELSE 1 + BitLen(x \div 2)

\* float64(x) for an unsigned integer x: exact below 2^MantBits, else rounded
\* to MantBits significant bits, to nearest, ties to even
ToFloat(x) ==
    IF x < 2^MantBits THEN x
    ELSE LET g == 2^(BitLen(x) - MantBits)
             q == x \div g
             r == x % g
         IN IF 2 * r > g \/ (2 * r = g /\ q % 2 = 1) THEN (q + 1) * g ELSE q * g

\* unsigned subtraction and addition at the modelled width
USub(a, b) == (a - b) % Mod
UAdd(a, b) == (a + b) % Mod

----------------------------------------------------------------------------
(* CPUCollector: /proc/stat *)

CpuLabel == <<"c", "p", "u">>
Cpu0Label == <<"c", "p", "u", "0">>
IntrLabel == <<"i", "n", "t", "r">>
CpuPrefix == <<"c", "p", "u", " ">>
BadToken == <<"x">>

\* A line of /proc/stat is its whitespace-separated fields; a file is whether
\* os.Open fails and its lines.
StatLine(label, toks) == <<label>> \o toks

TickToks == {Itoa(n) : n \in 0..MaxTick}
StepToks == {Itoa(0), Itoa(1)}

\* the well-formed aggregate lines: user, idle and iowait take every tick
\* value, and nice, system, irq and softirq stand at 0 or 1
WellFormedLines ==
    {StatLine(CpuLabel, t) : t \in
        {u \in [1..7 -> TickToks \cup StepToks] :
            \A i \in 1..7 : u[i] \in (IF i \in {1, 4, 5} THEN TickToks ELSE StepToks)}}

ZeroToks == [i \in 1..7 |-> Itoa(0)]
OneToks == [i \in 1..7 |-> Itoa(1)]

\* aggregate lines with one field that is no unsigned integer, or is out of
\* range, and a line with the further fields steal, guest, guest_nice
OddLines ==
    {StatLine(CpuLabel, [OneToks EXCEPT ![i] = BadToken]) : i \in 1..7}
    \cup {StatLine(CpuLabel, [ZeroToks EXCEPT ![i] = Itoa(Mod)]) : i \in {1, 4}}
    \cup {StatLine(CpuLabel, OneToks \o <<Itoa(1), Itoa(1), Itoa(1)>>)}

ShortLine == StatLine(CpuLabel, SubSeq(OneToks, 1, 6))

StatFile(e, ls) == [err |-> e, lines |-> ls]

StatFiles ==
    {StatFile(FALSE, <<l>>) : l \in WellFormedLines \cup OddLines}
    \cup {StatFile(FALSE, <<StatLine(Cpu0Label, ZeroToks), l,
                            StatLine(IntrLabel, <<Itoa(1)>>)>>) :
             l \in {StatLine(CpuLabel, OneToks)}}
    \cup {StatFile(TRUE, <<>>),
          StatFile(FALSE, <<StatLine(IntrLabel, <<Itoa(1)>>)>>),
          StatFile(FALSE, <<StatLine(Cpu0Label, OneToks)>>),
          StatFile(FALSE, <<ShortLine>>),
          StatFile(FALSE, <<ShortLine, StatLine(CpuLabel, OneToks)>>)}

\* the file the kernel shows when its cumulative counters stand at k
KernelFile(k) ==
    StatFile(FALSE, <<StatLine(CpuLabel,
        [ZeroToks EXCEPT ![1] = Itoa(k.user), ![4] = Itoa(k.idle)])>>)

\* strings.HasPrefix(line, "cpu "): the line starts with its first field,
\* followed by the separator when a further field follows
LineHasCpuPrefix(line) ==
    /\ line # <<>>
    /\ HasPrefix(line[1] \o (IF Len(line) > 1 THEN <<" ">> ELSE <<>>), CpuPrefix)

\* readCPUUsage up to the field count check: the fields of the first line
\* with the prefix, or failure
ScanStat(file) ==
    IF file.err THEN [ok |-> FALSE, fields |-> <<>>]
    ELSE LET hits == {i \in 1..Len(file.lines) : LineHasCpuPrefix(file.lines[i])}
         IN IF hits = {} THEN [ok |-> FALSE, fields |-> <<>>]
            ELSE LET first == CHOOSE i \in hits : \A j \in hits : i <= j
                     fields == file.lines[first]
                 IN IF Len(fields) < 8 THEN [ok |-> FALSE, fields |-> <<>>]
                    ELSE [ok |-> TRUE, fields |-> fields]

\* Go's fields[k] is fields[k + 1] here
GoField(fields, k) == ParseUint(fields[k + 1]).v

MutTotal(fields) ==
    UAdd(UAdd(UAdd(UAdd(UAdd(GoField(fields, 1), GoField(fields, 2)),
        GoField(fields, 3)), GoField(fields, 4)), GoField(fields, 5)),
        GoField(fields, 6))

\* total := user + nice + system + idle + iowait + irq + softirq
Total(fields) ==
    UAdd(UAdd(UAdd(UAdd(UAdd(UAdd(GoField(fields, 1), GoField(fields, 2)),
        GoField(fields, 3)), GoField(fields, 4)), GoField(fields, 5)),
        GoField(fields, 6)), GoField(fields, 7))

\* idleTotal := idle + iowait
IdleTotal(fields) == UAdd(GoField(fields, 4), GoField(fields, 5))

Frac(n, d) == [num |-> n, den |-> d]

\* the delta and the division of readCPUUsage, as the fraction of 100
Usage(total, idleTotal, pTotal, pIdle) ==
    IF pTotal = 0 THEN Frac(0, 1)
    ELSE LET totalDelta == USub(total, pTotal)
             idleDelta == USub(idleTotal, pIdle)
         IN IF totalDelta = 0 THEN Frac(0, 1)
            ELSE Frac(ToFloat(USub(totalDelta, idleDelta)), ToFloat(totalDelta))

Sample(name, value, labels) ==
    [name |-> name, num |-> value.num, den |-> value.den, labels |-> labels]

----------------------------------------------------------------------------
(* Files of sysfs: whether os.ReadFile fails, and the content *)

NoFile == [err |-> TRUE, text |-> <<>>]
File(text) == [err |-> FALSE, text |-> text]

Pow10(n) == 10^n

\* strconv.ParseFloat(s, 64) on decimal text: an optional sign, digits and an
\* optional fraction; anything else is an error.  The value is num/den.
ParseFloat(s) ==
    LET signed == s # <<>> /\ s[1] \in {"-", "+"}
        body == IF signed THEN Tail(s) ELSE s
        dots == {i \in 1..Len(body) : body[i] = "."}
        dot == IF dots = {} THEN Len(body) + 1
               ELSE CHOOSE i \in dots : \A j \in dots : i <= j
        ip == SubSeq(body, 1, dot - 1)
        fp == SubSeq(body, dot + 1, Len(body))
        digitsOnly(t) == \A i \in 1..Len(t) : IsDigit(t[i])
        mag == DecValue(ip) * Pow10(Len(fp)) + DecValue(fp)
    IN IF (ip = <<>> /\ fp = <<>>) \/ ~digitsOnly(ip) \/ ~digitsOnly(fp)
       THEN [ok |-> FALSE, num |-> 0, den |-> 1]
       ELSE [ok |-> TRUE,
             num |-> IF signed /\ s[1] = "-" THEN 0 - mag ELSE mag,
             den |-> Pow10(Len(fp))]

Absent == [ok |-> FALSE, num |-> 0, den |-> 1]
Present(n, d) == [ok |-> TRUE, num |-> n, den |-> d]

----------------------------------------------------------------------------
(* CPUCollector: temperature *)

\* for i := 0; i < 10; i++
ZoneScanLimit == 10

ZoneFiles(th, i) == IF i \in DOMAIN th THEN th[i]
                    ELSE [type |-> NoFile, temp |-> NoFile]

\* readThermalTemp: millidegrees to degrees Celsius
readThermalTemp(f) ==
    IF f.err THEN Absent
    ELSE LET millideg == ParseFloat(TrimSpace(f.text))
         IN IF ~millideg.ok THEN Absent
            ELSE Present(millideg.num, millideg.den * 1000)

CpuWord == <<"c", "p", "u">>
SocWord == <<"s", "o", "c">>

MutZoneMatches(f) ==
    /\ ~f.err
    /\ Contains(ToLower(TrimSpace(f.text)), CpuWord)

\* the zone's type is readable and, lower-cased, contains "cpu" or "soc"
ZoneMatches(f) ==
    /\ ~f.err
    /\ LET zoneType == ToLower(TrimSpace(f.text))
       IN Contains(zoneType, CpuWord) \/ Contains(zoneType, SocWord)

RECURSIVE ScanZones(_, _)
ScanZones(th, i) ==
    IF i >= ZoneScanLimit THEN readThermalTemp(ZoneFiles(th, 0).temp)
    ELSE IF ZoneMatches(ZoneFiles(th, i).type)
         THEN readThermalTemp(ZoneFiles(th, i).temp)
         ELSE ScanZones(th, i + 1)

readCPUTemperature(th) == ScanZones(th, 0)

----------------------------------------------------------------------------
(* CPUCollector: frequency *)

\* for i := 0; i < 256; i++
CoreScanLimit == 256

CoreFile(fs, i) == IF i \in DOMAIN fs THEN fs[i] ELSE NoFile

FracAdd(a, b) == [num |-> a.num * b.den + b.num * a.den, den |-> a.den * b.den]

RECURSIVE MutFreqLoop(_, _, _, _)
MutFreqLoop(fs, i, totalFreq, count) ==
    IF i >= CoreScanLimit THEN [totalFreq |-> totalFreq, count |-> count, none |-> FALSE]
    ELSE IF CoreFile(fs, i).err
         THEN [totalFreq |-> totalFreq, count |-> count, none |-> (i = 0)]
         ELSE LET freqKHz == ParseFloat(TrimSpace(CoreFile(fs, i).text))
              IN IF ~freqKHz.ok
                 THEN [totalFreq |-> totalFreq, count |-> count, none |-> FALSE]
                 ELSE MutFreqLoop(fs, i + 1, FracAdd(totalFreq, freqKHz), count + 1)

\* the loop of readCPUFrequency from core i on, with its accumulators
RECURSIVE FreqLoop(_, _, _, _)
FreqLoop(fs, i, totalFreq, count) ==
    IF i >= CoreScanLimit THEN [totalFreq |-> totalFreq, count |-> count, none |-> FALSE]
    ELSE IF CoreFile(fs, i).err
         THEN [totalFreq |-> totalFreq, count |-> count, none |-> (i = 0)]
         ELSE LET freqKHz == ParseFloat(TrimSpace(CoreFile(fs, i).text))
              IN IF ~freqKHz.ok THEN FreqLoop(fs, i + 1, totalFreq, count)
                 ELSE FreqLoop(fs, i + 1, FracAdd(totalFreq, freqKHz), count + 1)

readCPUFrequency(fs) ==
    LET r == FreqLoop(fs, 0, Frac(0, 1), 0)
    IN IF r.none \/ r.count = 0 THEN Absent
       ELSE Present(r.totalFreq.num, r.totalFreq.den * r.count * 1000)

----------------------------------------------------------------------------
(* CPUCollector: Collect *)

UsageName == "cpu_usage_percent"
TempName == "cpu_temperature_celsius"
FreqName == "cpu_frequency_mhz"

\* every counter field of the line is an unsigned integer in range
WellFormed(fields) ==
    \A k \in 2..8 : AllDigits(fields[k]) /\ DecValue(fields[k]) < Mod

\* history: what a reading's line says, in unbounded integers (when every
\* field is well-formed), and the sums the call made of it (ct, ci)
NoReading == [some |-> FALSE, wf |-> FALSE, total |-> 0, idleTotal |-> 0,
              ct |-> 0, ci |-> 0]

ReadingOf(fields, ct, ci) ==
    IF ~WellFormed(fields) THEN [NoReading EXCEPT !.some = TRUE, !.ct = ct, !.ci = ci]
    ELSE [some |-> TRUE, wf |-> TRUE, ct |-> ct, ci |-> ci,
          total |-> DecValue(fields[2]) + DecValue(fields[3]) + DecValue(fields[4])
                    + DecValue(fields[5]) + DecValue(fields[6]) + DecValue(fields[7])
                    + DecValue(fields[8]),
          idleTotal |-> DecValue(fields[5]) + DecValue(fields[6])]

\* the locals of one readCPUUsage call; seq, pSeq, cur and before are
\* history: the call's read order, the read order of the reading it found
\* stored, its reading and the latest reading that passed the field count
\* check before it
NoLoc == [total |-> 0, idleTotal |-> 0, pTotal |-> 0, pIdle |-> 0,
          seq |-> 0, pSeq |-> 0, cur |-> NoReading, before |-> NoReading]

InitCPU ==
    /\ prevTotal = 0
    /\ prevIdle = 0
    /\ mu = 0
    /\ pc = [c \in Callers |-> "idle"]
    /\ loc = [c \in Callers |-> NoLoc]
    /\ out = [c \in Callers |-> <<>>]
    /\ calls = 0
    /\ prevSeq = 0
    /\ lastOK = NoReading

\* a slip: a failed read clears the stored pair
MutOpenStat(c, file) ==
    /\ pc[c] = "idle"
    /\ calls < MaxCalls
    /\ calls' = calls + 1
    /\ out' = [out EXCEPT ![c] = <<>>]
    /\ LET r == ScanStat(file)
       IN IF r.ok
          THEN /\ pc' = [pc EXCEPT ![c] = "lock"]
               /\ loc' = [loc EXCEPT ![c] =
                            [NoLoc EXCEPT !.total = Total(r.fields),
                                          !.idleTotal = IdleTotal(r.fields),
                                          !.seq = calls + 1,
                                          !.cur = ReadingOf(r.fields, Total(r.fields),
                                                           IdleTotal(r.fields)),
                                          !.before = lastOK]]
               /\ lastOK' = ReadingOf(r.fields, Total(r.fields), IdleTotal(r.fields))
               /\ UNCHANGED <<prevTotal, prevIdle>>
          ELSE /\ pc' = [pc EXCEPT ![c] = "temp"]
               /\ loc' = [loc EXCEPT ![c] = [NoLoc EXCEPT !.seq = calls + 1]]
               /\ prevTotal' = 0
               /\ prevIdle' = 0
               /\ UNCHANGED lastOK
    /\ UNCHANGED <<mu, prevSeq>>
    /\ UNCHANGED <<fsVars, probe>>

\* readCPUUsage, from os.Open to the field count check and the sums
OpenStat(c, file) ==
    /\ pc[c] = "idle"
    /\ calls < MaxCalls
    /\ calls' = calls + 1
    /\ out' = [out EXCEPT ![c] = <<>>]
    /\ LET r == ScanStat(file)
       IN IF r.ok
          THEN /\ pc' = [pc EXCEPT ![c] = "lock"]
               /\ loc' = [loc EXCEPT ![c] =
                            [NoLoc EXCEPT !.total = Total(r.fields),
                                          !.idleTotal = IdleTotal(r.fields),
                                          !.seq = calls + 1,
                                          !.cur = ReadingOf(r.fields, Total(r.fields),
                                                           IdleTotal(r.fields)),
                                          !.before = lastOK]]
               /\ lastOK' = ReadingOf(r.fields, Total(r.fields), IdleTotal(r.fields))
          ELSE /\ pc' = [pc EXCEPT ![c] = "temp"]
               /\ loc' = [loc EXCEPT ![c] = [NoLoc EXCEPT !.seq = calls + 1]]
               /\ UNCHANGED lastOK
    /\ UNCHANGED <<prevTotal, prevIdle, mu, prevSeq>>
    /\ UNCHANGED <<fsVars, probe>>

\* c.mu.Lock()
Lock(c) ==
    /\ pc[c] = "lock"
    /\ mu = 0
    /\ mu' = c
    /\ pc' = [pc EXCEPT ![c] = "crit"]
    /\ UNCHANGED <<prevTotal, prevIdle, loc, out, calls, prevSeq, lastOK>>
    /\ UNCHANGED <<fsVars, probe>>

MutSwapUnlock(c) ==
    /\ pc[c] = "crit"
    /\ mu = c
    /\ loc' = [loc EXCEPT ![c].pTotal = prevTotal, ![c].pIdle = prevIdle,
                          ![c].pSeq = prevSeq]
    /\ prevTotal' = loc[c].total
    /\ prevIdle' = IF prevTotal = 0 THEN loc[c].idleTotal ELSE prevIdle
    /\ prevSeq' = loc[c].seq
    /\ mu' = 0
    /\ pc' = [pc EXCEPT ![c] = "calc"]
    /\ UNCHANGED <<out, calls, lastOK>>
    /\ UNCHANGED <<fsVars, probe>>

\* the swap under the mutex, and c.mu.Unlock()
SwapUnlock(c) ==
    /\ pc[c] = "crit"
    /\ mu = c
    /\ loc' = [loc EXCEPT ![c].pTotal = prevTotal, ![c].pIdle = prevIdle,
                          ![c].pSeq = prevSeq]
    /\ prevTotal' = loc[c].total
    /\ prevIdle' = loc[c].idleTotal
    /\ prevSeq' = loc[c].seq
    /\ mu' = 0
    /\ pc' = [pc EXCEPT ![c] = "calc"]
    /\ UNCHANGED <<out, calls, lastOK>>
    /\ UNCHANGED <<fsVars, probe>>

\* the rest of readCPUUsage, and Collect sending the usage sample
EmitUsage(c) ==
    /\ pc[c] = "calc"
    /\ out' = [out EXCEPT ![c] = Append(@, Sample(UsageName,
                 Usage(loc[c].total, loc[c].idleTotal, loc[c].pTotal, loc[c].pIdle),
                 <<>>))]
    /\ pc' = [pc EXCEPT ![c] = "temp"]
    /\ UNCHANGED <<prevTotal, prevIdle, mu, loc, calls, prevSeq, lastOK>>
    /\ UNCHANGED <<fsVars, probe>>

SendIfOk(ch, name, r) ==
    IF r.ok THEN Append(ch, Sample(name, r, <<>>)) ELSE ch

\* Collect: readCPUTemperature and its sample
EmitTemp(c) ==
    /\ pc[c] = "temp"
    /\ out' = [out EXCEPT ![c] = SendIfOk(@, TempName, readCPUTemperature(thermal))]
    /\ pc' = [pc EXCEPT ![c] = "freq"]
    /\ UNCHANGED <<prevTotal, prevIdle, mu, loc, calls, prevSeq, lastOK>>
    /\ UNCHANGED <<fsVars, probe>>

\* Collect: readCPUFrequency and its sample
EmitFreq(c) ==
    /\ pc[c] = "freq"
    /\ out' = [out EXCEPT ![c] = SendIfOk(@, FreqName, readCPUFrequency(cpufreq))]
    /\ pc' = [pc EXCEPT ![c] = "done"]
    /\ UNCHANGED <<prevTotal, prevIdle, mu, loc, calls, prevSeq, lastOK>>
    /\ UNCHANGED <<fsVars, probe>>

\* Collect returns: the call's locals and its channel writes are gone
Return(c) ==
    /\ pc[c] = "done"
    /\ pc' = [pc EXCEPT ![c] = "idle"]
    /\ loc' = [loc EXCEPT ![c] = NoLoc]
    /\ out' = [out EXCEPT ![c] = <<>>]
    /\ UNCHANGED <<prevTotal, prevIdle, mu, calls, prevSeq, lastOK>>
    /\ UNCHANGED <<fsVars, probe>>

\* the kernel accounts one more tick of user or of idle time
Tick ==
    /\ \E f \in {"user", "idle"} :
          /\ kernel[f] <= MaxTick
          /\ kernel' = [kernel EXCEPT ![f] = @ + 1]
    /\ UNCHANGED <<cpuVars, thermal, cpufreq, meminfo, gpuTool, netfs, diskstats, probe>>

----------------------------------------------------------------------------
(* The sysfs trees the model draws from *)

TypeX86 == <<"x", "8", "6", "_", "p", "k", "g", "_", "t", "e", "m", "p", "\n">>
TypeAcpitz == <<"a", "c", "p", "i", "t", "z", "\n">>
TypeCpuThermal == <<"c", "p", "u", "-", "t", "h", "e", "r", "m", "a", "l", "\n">>
TypeSoc == <<"S", "o", "C", "\n">>
Garbage == <<"n", "/", "a", "\n">>

\* zone i, when present and readable, reports 40000 + 1000 * i millidegrees
ZoneTempText(i) == Itoa(40000 + 1000 * i) \o <<"\n">>

ZoneIdx == 0..(NumZones - 1) \cup {ZoneScanLimit - 1, ZoneScanLimit}

Zone(type, temp) == [type |-> type, temp |-> temp]

\* a zone at a low index: its type file is unreadable or holds one of four
\* types, its temp file is unreadable, unparsable or holds the zone's value
TypeFiles == {NoFile, File(TypeX86), File(TypeAcpitz), File(TypeCpuThermal), File(TypeSoc)}
TempKinds == {"none", "garbage", "value"}

TempFile(kind, i) ==
    CASE kind = "none" -> NoFile
      [] kind = "garbage" -> File(Garbage)
      [] OTHER -> File(ZoneTempText(i))

\* the zones at the end of the scanned range (9) and just past it (10):
\* neither exists, or one of them does, as a cpu zone with a readable
\* temperature
FarChoices == {{}, {ZoneScanLimit - 1}, {ZoneScanLimit}}

FarZone(present, i) ==
    IF present THEN Zone(File(TypeCpuThermal), File(ZoneTempText(i)))
    ELSE Zone(NoFile, NoFile)

ThermalTree(ty, tk, far) ==
    [i \in ZoneIdx |-> IF i < NumZones THEN Zone(ty[i], TempFile(tk[i], i))
                       ELSE FarZone(i \in far, i)]

NoZones == [i \in ZoneIdx |-> Zone(NoFile, NoFile)]

Freq1200 == <<"1", "2", "0", "0", "0", "0", "0", "\n">>
Freq1800 == <<"1", "8", "0", "0", "0", "0", "0", "\n">>

CoreIdx == 0..(MaxCores - 1)

FreqTrees == [CoreIdx -> {NoFile, File(Garbage), File(Freq1200), File(Freq1800)}]

NoCores == [i \in CoreIdx |-> NoFile]

\* the trees under the Collect calls of the CPU specifications
CollectTrees ==
    {<<NoZones, [NoCores EXCEPT ![0] = File(Freq1200)]>>,
     <<[NoZones EXCEPT ![0] = Zone(File(TypeAcpitz), File(ZoneTempText(0)))], NoCores>>}

NoKernel == [user |-> 0, idle |-> 0]

NoProbe == [ran |-> FALSE, ch |-> <<>>]
Ran(ch) == [ran |-> TRUE, ch |-> ch]

----------------------------------------------------------------------------
(* Sequential Collect calls on one CPUCollector: one goroutine makes them, so
   a call starts only when the one before has returned; each reads whatever
   /proc/stat then holds *)

SeqCallers == {1}

InitSeq ==
    /\ InitCPU
    /\ \E t \in CollectTrees : thermal = t[1] /\ cpufreq = t[2]
    /\ meminfo = <<>>
    /\ gpuTool = <<>>
    /\ netfs = <<>>
    /\ diskstats = <<>>
    /\ kernel = NoKernel
    /\ probe = NoProbe

CallSeq(c) ==
    /\ \A d \in Callers : pc[d] = "idle"
    /\ \E file \in StatFiles : OpenStat(c, file)

NextSeq ==
    \/ \E c \in SeqCallers : CallSeq(c)
    \/ \E c \in SeqCallers : Lock(c)
    \/ \E c \in SeqCallers : SwapUnlock(c)
    \/ \E c \in SeqCallers : EmitUsage(c)
    \/ \E c \in SeqCallers : EmitTemp(c)
    \/ \E c \in SeqCallers : EmitFreq(c)
    \/ \E c \in SeqCallers : Return(c)

SpecSeq == InitSeq /\ [][NextSeq]_vars

----------------------------------------------------------------------------
(* Concurrent Collect calls on one CPUCollector, as the registry makes them
   when scrapes overlap; the kernel's counters only grow *)

CallConc(c) == OpenStat(c, KernelFile(kernel))

NextConc ==
    \/ \E c \in Callers : CallConc(c)
    \/ \E c \in Callers : Lock(c)
    \/ \E c \in Callers : SwapUnlock(c)
    \/ \E c \in Callers : EmitUsage(c)
    \/ \E c \in Callers : EmitTemp(c)
    \/ \E c \in Callers : EmitFreq(c)
    \/ \E c \in Callers : Return(c)
    \/ Tick

SpecConc == InitSeq /\ [][NextConc]_vars

----------------------------------------------------------------------------
(* Properties of the usage measurement *)

\* caller c's call has read a line that passed the field count check and has
\* sent its usage sample
Measured(c) == pc[c] \in {"temp", "freq", "done"} /\ loc[c].cur.some

\* C1: for two well-formed readings in a row of sequential calls, the earlier
\* with a nonzero total, the later call's usage sample is
\* (dTotal - dIdle) / dTotal * 100, where total is the sum of the seven
\* counters, idleTotal is idle + iowait and dTotal, dIdle are the unsigned
\* differences between the two readings, each operand of the division
\* converted to float; it is 0 when dTotal = 0.  Whenever no subtraction
\* wraps and the differences are exact as floats, as with counters that only
\* grow, this is the quotient of the integer differences.
C1_UsageIsDeltaRatio ==
    \A c \in Callers :
        (Measured(c) /\ loc[c].cur.wf /\ loc[c].before.wf /\ loc[c].before.total # 0) =>
            LET cur == loc[c].cur
                before == loc[c].before
                dTotal == (cur.total - before.total) % Mod
                dIdle == (cur.idleTotal - before.idleTotal) % Mod
                s == out[c][1]
            IN /\ Len(out[c]) >= 1
               /\ s.name = UsageName
               /\ IF dTotal = 0 THEN s.num = 0
                  ELSE /\ s.den = ToFloat(dTotal)
                       /\ s.num = ToFloat((dTotal - dIdle) % Mod)
                       /\ (/\ cur.total >= before.total
                           /\ cur.total - before.total >= cur.idleTotal - before.idleTotal
                           /\ cur.total - before.total < 2^MantBits
                           /\ (cur.total - before.total)
                                 - (cur.idleTotal - before.idleTotal) < 2^MantBits)
                          => /\ s.den = cur.total - before.total
                             /\ s.num = (cur.total - before.total)
                                        - (cur.idleTotal - before.idleTotal)

\* a later call has measured 3 ticks of which 1 idle, after a reading with a
\* nonzero total: usage 2/3 of 100
C1_Witness ==
    \E c \in Callers :
        /\ Measured(c) /\ loc[c].cur.wf /\ loc[c].before.wf
        /\ loc[c].before.total # 0
        /\ loc[c].cur.total - loc[c].before.total = 3
        /\ loc[c].cur.idleTotal - loc[c].before.idleTotal = 1
        /\ out[c][1].num = 2 /\ out[c][1].den = 3

\* C2: the stored pair is (0, 0) until a reading passes; the first reading
\* that passes yields usage 0; every reading that passes yields a usage
\* sample; and whenever no call stands between its reading and its swap the
\* stored pair is the (total, idleTotal) of the latest reading that passed.
C2_StoredPairIsLatestReading ==
    /\ ~lastOK.some => (prevTotal = 0 /\ prevIdle = 0)
    /\ \A c \in Callers :
          Measured(c) =>
              /\ Len(out[c]) >= 1
              /\ out[c][1].name = UsageName
              /\ ~loc[c].before.some => out[c][1].num = 0
    /\ (lastOK.some /\ \A c \in Callers : pc[c] \notin {"lock", "crit"})
          => (prevTotal = lastOK.ct /\ prevIdle = lastOK.ci)

\* after two calls or more, the last one returned, the stored pair holds a
\* reading with a nonzero total and a nonzero idle total
C2_Witness ==
    /\ \A c \in Callers : pc[c] = "idle"
    /\ calls >= 2
    /\ lastOK.some /\ lastOK.wf
    /\ prevTotal = lastOK.total /\ prevTotal > 1
    /\ prevIdle = lastOK.idleTotal /\ prevIdle > 0

\* C3: no call computes its delta against a stored pair that came from a
\* reading taken after its own: a call that found a nonzero previous total,
\* and so takes the differences, found the pair of an earlier reading.
C3_NoLaterBaseline ==
    \A c \in Callers :
        (pc[c] \in {"calc", "temp", "freq", "done"} /\ loc[c].cur.some
           /\ loc[c].pTotal # 0)
            => loc[c].pSeq < loc[c].seq

\* C4: every cpu_usage_percent sample lies in 0..100.
C4_UsageInRange ==
    \A c \in Callers : \A i \in 1..Len(out[c]) :
        out[c][i].name = UsageName =>
            (0 <= out[c][i].num /\ out[c][i].num <= out[c][i].den)

----------------------------------------------------------------------------
(* readCPUTemperature and readCPUFrequency over every sysfs tree of the
   bounds: one Collect call's temperature, or frequency, part *)

IdleCPU ==
    /\ InitCPU
    /\ kernel = NoKernel
    /\ probe = NoProbe

InitTemp ==
    /\ IdleCPU
    /\ \E ty \in [0..(NumZones - 1) -> TypeFiles],
          tk \in [0..(NumZones - 1) -> TempKinds],
          far \in FarChoices : thermal = ThermalTree(ty, tk, far)
    /\ cpufreq = NoCores
    /\ meminfo = <<>>
    /\ gpuTool = <<>>
    /\ netfs = <<>>
    /\ diskstats = <<>>

CollectTemp ==
    /\ ~probe.ran
    /\ probe' = Ran(SendIfOk(<<>>, TempName, readCPUTemperature(thermal)))
    /\ UNCHANGED <<cpuVars, fsVars>>

NextTemp == CollectTemp

SpecTemp == InitTemp /\ [][NextTemp]_vars

InitFreq ==
    /\ IdleCPU
    /\ thermal = NoZones
    /\ cpufreq \in FreqTrees
    /\ meminfo = <<>>
    /\ gpuTool = <<>>
    /\ netfs = <<>>
    /\ diskstats = <<>>

CollectFreq ==
    /\ ~probe.ran
    /\ probe' = Ran(SendIfOk(<<>>, FreqName, readCPUFrequency(cpufreq)))
    /\ UNCHANGED <<cpuVars, fsVars>>

NextFreq == CollectFreq

SpecFreq == InitFreq /\ [][NextFreq]_vars

\* what the trees hold, read off the texts they were built from
IsCpuOrSocZone(z) == ~z.type.err /\ z.type.text \in {TypeCpuThermal, TypeSoc}

MinOf(S) == CHOOSE i \in S : \A j \in S : i <= j

\* C9: the temperature comes from the lowest zone of 0..9 whose readable type,
\* lower-cased, contains "cpu" or "soc", else from zone 0; it is the zone's
\* millidegrees over 1000, and no sample is sent when that zone's temp file
\* is unreadable or unparsable.
C9_TempFromFirstCpuZone ==
    probe.ran =>
        LET hits == {i \in ZoneIdx : i <= 9 /\ IsCpuOrSocZone(thermal[i])}
            z == IF hits = {} THEN 0 ELSE MinOf(hits)
            f == thermal[z].temp
        IN IF f.err \/ f.text # ZoneTempText(z) THEN probe.ch = <<>>
           ELSE probe.ch = <<[name |-> TempName, num |-> 40000 + 1000 * z,
                              den |-> 1000, labels |-> <<>>]>>

\* zones x86_pkg_temp, acpitz, cpu-thermal at 0, 1, 2, all with readable
\* temperatures: the sample is zone 2's 42000 millidegrees
C9_Witness ==
    /\ probe.ran
    /\ thermal[0] = Zone(File(TypeX86), File(ZoneTempText(0)))
    /\ thermal[1] = Zone(File(TypeAcpitz), File(ZoneTempText(1)))
    /\ thermal[2] = Zone(File(TypeCpuThermal), File(ZoneTempText(2)))
    /\ Len(probe.ch) = 1
    /\ probe.ch[1].num = 42000 /\ probe.ch[1].den = 1000

\* C10: no frequency sample when core 0's file is missing; else the cores
\* before the first missing file whose value parsed are averaged, in MHz;
\* a value that does not parse neither ends the scan nor counts; no sample
\* when none parsed.
C10_FreqIsMeanBeforeGap ==
    probe.ran =>
        LET gap == MinOf({i \in 0..MaxCores : i = MaxCores \/ cpufreq[i].err})
            n12 == Cardinality({i \in 0..(gap - 1) : cpufreq[i].text = Freq1200})
            n18 == Cardinality({i \in 0..(gap - 1) : cpufreq[i].text = Freq1800})
        IN IF n12 + n18 = 0 THEN probe.ch = <<>>
           ELSE /\ Len(probe.ch) = 1
                /\ probe.ch[1].name = FreqName
                /\ probe.ch[1].den % 1000 = 0
                /\ probe.ch[1].num * (n12 + n18)
                     = (1200000 * n12 + 1800000 * n18) * (probe.ch[1].den \div 1000)

\* core 0 at 1200000 kHz, core 1 unparsable, core 2 at 1800000 kHz, core 3
\* missing: 1500 MHz
C10_Witness ==
    /\ probe.ran
    /\ cpufreq[0] = File(Freq1200)
    /\ cpufreq[1] = File(Garbage)
    /\ cpufreq[2] = File(Freq1800)
    /\ cpufreq[3] = NoFile
    /\ Len(probe.ch) = 1
    /\ probe.ch[1].num = 1500 * probe.ch[1].den

----------------------------------------------------------------------------
(* MemoryCollector: /proc/meminfo *)

\* largest kB value a line of /proc/meminfo holds
MaxMemKB == 4

KeyMemTotal == <<"M", "e", "m", "T", "o", "t", "a", "l">>
KeyMemFree == <<"M", "e", "m", "F", "r", "e", "e">>
KeyBuffers == <<"B", "u", "f", "f", "e", "r", "s">>
KeyCached == <<"C", "a", "c", "h", "e", "d">>
KeySwapCached == <<"S", "w", "a", "p", "C", "a", "c", "h", "e", "d">>
KeyHugePages == <<"H", "u", "g", "e", "P", "a", "g", "e", "s">>
KbSuffix == <<" ", "k", "B">>

MemTotalName == "memory_total_bytes"
MemUsedName == "memory_used_bytes"

\* a line as the kernel prints it: "Key:   value kB"
MemLine(key, n) == key \o <<":", " ", " ", " ">> \o Itoa(n) \o KbSuffix
\* a line with no unit, a line whose value is no number, a line with no colon
PlainLine(key, n) == key \o <<":", " ">> \o Itoa(n)
JunkLine(key) == key \o <<":", " ", "?", " ", "k", "B">>
NoColonLine == <<"-", "-", "-">>

MemFile(e, ls) == [err |-> e, lines |-> ls]

\* the files with the four lines the collector uses, SwapCached among them
FullMemFiles ==
    {MemFile(FALSE, <<MemLine(KeyMemTotal, v[1]), MemLine(KeyMemFree, v[2]),
                      MemLine(KeyBuffers, v[3]), MemLine(KeyCached, v[4]),
                      MemLine(KeySwapCached, MaxMemKB + 1)>>) :
        v \in [1..4 -> 0..MaxMemKB]}

\* a file that cannot be opened; files lacking a line, or holding a line
\* that is skipped, a line with no unit, or a key twice
OddMemFiles ==
    {MemFile(TRUE, <<>>),
     MemFile(FALSE, <<>>),
     MemFile(FALSE, <<MemLine(KeyMemTotal, 3), MemLine(KeyMemFree, 1),
                      MemLine(KeyCached, 1)>>),
     MemFile(FALSE, <<MemLine(KeyMemFree, 1), MemLine(KeyBuffers, 1)>>),
     MemFile(FALSE, <<MemLine(KeyMemTotal, 3), NoColonLine,
                      MemLine(KeyMemFree, 1), JunkLine(KeyBuffers),
                      PlainLine(KeyHugePages, 2), PlainLine(KeyCached, 1)>>),
     MemFile(FALSE, <<MemLine(KeyMemTotal, 1), MemLine(KeyMemTotal, 3),
                      MemLine(KeyMemFree, 2), JunkLine(KeyMemFree)>>)}

MemFiles == FullMemFiles \cup OddMemFiles

\* strings.SplitN(s, sep, 2) for a one-character sep
SplitN2(s, sep) ==
    LET at == {i \in 1..Len(s) : s[i] = sep}
    IN IF at = {} THEN <<s>>
       ELSE LET i == CHOOSE k \in at : \A j \in at : k <= j
            IN <<SubSeq(s, 1, i - 1), SubSeq(s, i + 1, Len(s))>>

\* strings.TrimSuffix
TrimSuffix(s, suf) ==
    IF Len(s) >= Len(suf) /\ SubSeq(s, Len(s) - Len(suf) + 1, Len(s)) = suf
    THEN SubSeq(s, 1, Len(s) - Len(suf)) ELSE s

\* info[key] = val
MapPut(info, key, val) ==
    [k \in (DOMAIN info) \cup {key} |-> IF k = key THEN val ELSE info[k]]

\* info[key] of a Go map: the zero value when the key is missing
MapGet(info, key) == IF key \in DOMAIN info THEN info[key] ELSE 0

EmptyMap == [k \in {} |-> 0]

\* the scan loop of readMemInfo over the lines left
RECURSIVE MemScan(_, _)
MemScan(lines, info) ==
    IF lines = <<>> THEN info
    ELSE LET parts == SplitN2(Head(lines), ":")
         IN IF Len(parts) # 2 THEN MemScan(Tail(lines), info)
            ELSE LET key == TrimSpace(parts[1])
                     valStr == TrimSpace(TrimSuffix(TrimSpace(parts[2]), KbSuffix))
                     val == ParseUint(valStr)
                 IN IF ~val.ok THEN MemScan(Tail(lines), info)
                    ELSE MemScan(Tail(lines), MapPut(info, key, val.v))

readMemInfo(f) ==
    IF f.err THEN [err |-> TRUE, info |-> EmptyMap]
    ELSE [err |-> FALSE, info |-> MemScan(f.lines, EmptyMap)]

\* float64(x) * 1024
Times1024(x) == Frac(x * 1024, 1)

\* MemoryCollector.Collect: the samples sent on ch
MemSamples(f) ==
    LET r == readMemInfo(f)
        totalKB == MapGet(r.info, KeyMemTotal)
        freeKB == MapGet(r.info, KeyMemFree)
        buffersKB == MapGet(r.info, KeyBuffers)
        cachedKB == MapGet(r.info, KeyCached)
        totalBytes == Times1024(ToFloat(totalKB))
        usedFirst == Times1024(ToFloat(USub(USub(USub(totalKB, freeKB), buffersKB),
                                            cachedKB)))
        usedBytes == IF usedFirst.num < 0 THEN Times1024(ToFloat(USub(totalKB, freeKB)))
                     ELSE usedFirst
    IN IF r.err THEN <<>>
       ELSE <<Sample(MemTotalName, totalBytes, <<>>),
              Sample(MemUsedName, usedBytes, <<>>)>>

InitMem ==
    /\ IdleCPU
    /\ thermal = NoZones
    /\ cpufreq = NoCores
    /\ meminfo \in MemFiles
    /\ gpuTool = <<>>
    /\ netfs = <<>>
    /\ diskstats = <<>>

CollectMem ==
    /\ ~probe.ran
    /\ probe' = Ran(MemSamples(meminfo))
    /\ UNCHANGED <<cpuVars, fsVars>>

NextMem == CollectMem

SpecMem == InitMem /\ [][NextMem]_vars

\* the kB value a file's lines give a key, read off the lines the file was
\* built from: the last line of the key that holds a number
LinesOf(key) ==
    {i \in 1..Len(meminfo.lines) :
        \E n \in 0..(MaxMemKB + 1) :
            meminfo.lines[i] \in {MemLine(key, n), PlainLine(key, n)}}

KbOf(key) ==
    IF LinesOf(key) = {} THEN 0
    ELSE LET i == CHOOSE k \in LinesOf(key) : \A j \in LinesOf(key) : j <= k
         IN CHOOSE n \in 0..(MaxMemKB + 1) :
                meminfo.lines[i] \in {MemLine(key, n), PlainLine(key, n)}

\* C5: the used sample is (MemTotal - MemFree - Buffers - Cached) * 1024 when
\* that difference is not negative, and (MemTotal - MemFree) * 1024 when
\* MemFree + Buffers + Cached exceeds MemTotal.
C5_UsedWithFallback ==
    (probe.ran /\ ~meminfo.err) =>
        LET d == KbOf(KeyMemTotal) - KbOf(KeyMemFree) - KbOf(KeyBuffers)
                   - KbOf(KeyCached)
            used == IF d >= 0 THEN d * 1024
                    ELSE (KbOf(KeyMemTotal) - KbOf(KeyMemFree)) * 1024
        IN /\ Len(probe.ch) = 2
           /\ probe.ch[2].name = MemUsedName
           /\ probe.ch[2].num = used * probe.ch[2].den

----------------------------------------------------------------------------
(* GPUCollector: the output of nvidia-smi *)

\* if len(fields) < 4
GpuFieldCount == 4
\* largest number of comma-separated fields on the first output line
MaxGpuFields == 5

GpuUtilName == "gpu_utilization_percent"
GpuTempName == "gpu_temperature_celsius"
GpuFreqName == "gpu_frequency_mhz"
GpuPowerName == "gpu_power_watts"

NaBracketWord == <<"[", "N", "/", "A", "]">>
NaWord == <<"N", "/", "A">>

\* what the tool prints in the field at position p when it has a value:
\* "45, 62, 12.5, 1300", and 7 in any further field
GoodField(p) ==
    CASE p = 1 -> <<"4", "5">>
      [] p = 2 -> <<" ", "6", "2">>
      [] p = 3 -> <<" ", "1", "2", ".", "5">>
      [] p = 4 -> <<" ", "1", "3", "0", "0">>
      [] OTHER -> <<" ", "7">>

NotSupported ==
    <<" ", "[", "N", "o", "t", " ", "S", "u", "p", "p", "o", "r", "t", "e", "d", "]">>

\* the texts a field at position p may hold: a value, the two forms of the
\* not-applicable sentinel, nothing, or another text that is no number
FieldKinds == {"value", "bracketed", "plain", "empty", "other"}

FieldText(p, kind) ==
    CASE kind = "value" -> GoodField(p)
      [] kind = "bracketed" -> <<" ">> \o NaBracketWord
      [] kind = "plain" -> <<" ">> \o NaWord
      [] kind = "empty" -> <<>>
      [] OTHER -> NotSupported

GpuLine(kinds) == [p \in DOMAIN kinds |-> FieldText(p, kinds[p])]

\* the line of a second device
SecondGpu == <<<<"9">>, <<" ", "9">>, <<" ", "9">>, <<" ", "9">>>>

\* the outcome of the invocation: whether it failed, and the lines printed,
\* each as its fields
GpuRun(e, ls) == [err |-> e, lines |-> ls]

RECURSIVE Join(_, _)
Join(parts, sep) ==
    IF parts = <<>> THEN <<>>
    ELSE IF Len(parts) = 1 THEN parts[1]
    ELSE parts[1] \o <<sep>> \o Join(Tail(parts), sep)

\* the bytes the tool wrote: the fields joined by commas, a newline after
\* each line
RECURSIVE GpuOutput(_)
GpuOutput(ls) ==
    IF ls = <<>> THEN <<>>
    ELSE Join(Head(ls), ",") \o <<"\n">> \o GpuOutput(Tail(ls))

\* strings.Split(s, sep) for a one-character sep
RECURSIVE Split(_, _)
Split(s, sep) ==
    LET parts == SplitN2(s, sep)
    IN IF Len(parts) = 1 THEN parts
       ELSE <<parts[1]>> \o Split(parts[2], sep)

parseNvidiaSmiFloat(s) ==
    LET t == TrimSpace(s)
    IN IF t = <<>> \/ t = NaBracketWord \/ t = NaWord THEN Frac(0, 1)
       ELSE LET v == ParseFloat(t)
            IN IF ~v.ok THEN Frac(0, 1) ELSE Frac(v.num, v.den)

\* a slip: the fields taken in the order the samples are sent
MutGpuEmit(fields) ==
    LET utilization == parseNvidiaSmiFloat(fields[1])
        temp == parseNvidiaSmiFloat(fields[2])
        freq == parseNvidiaSmiFloat(fields[3])
        power == parseNvidiaSmiFloat(fields[4])
    IN <<Sample(GpuUtilName, utilization, <<>>), Sample(GpuTempName, temp, <<>>),
         Sample(GpuFreqName, freq, <<>>), Sample(GpuPowerName, power, <<>>)>>

\* Collect from the field count check on: the four parses and the four sends
GpuEmit(fields) ==
    LET utilization == parseNvidiaSmiFloat(fields[1])
        temp == parseNvidiaSmiFloat(fields[2])
        power == parseNvidiaSmiFloat(fields[3])
        freq == parseNvidiaSmiFloat(fields[4])
    IN <<Sample(GpuUtilName, utilization, <<>>), Sample(GpuTempName, temp, <<>>),
         Sample(GpuFreqName, freq, <<>>), Sample(GpuPowerName, power, <<>>)>>

\* GPUCollector.Collect: the samples sent on ch
GpuSamples(run) ==
    IF run.err THEN <<>>
    ELSE LET lines == Split(TrimSpace(GpuOutput(run.lines)), "\n")
         IN IF Len(lines) = 0 THEN <<>>
            ELSE LET fields == Split(lines[1], ",")
                 IN IF Len(fields) < GpuFieldCount THEN <<>>
                    ELSE GpuEmit(fields)

InitGPU ==
    /\ IdleCPU
    /\ thermal = NoZones
    /\ cpufreq = NoCores
    /\ meminfo = <<>>
    /\ \/ gpuTool \in {GpuRun(TRUE, <<>>), GpuRun(FALSE, <<>>)}
       \/ \E n \in 1..MaxGpuFields : \E kinds \in [1..n -> FieldKinds] :
             gpuTool \in {GpuRun(FALSE, <<GpuLine(kinds)>>),
                          GpuRun(FALSE, <<GpuLine(kinds), SecondGpu>>)}
    /\ netfs = <<>>
    /\ diskstats = <<>>

CollectGPU ==
    /\ ~probe.ran
    /\ probe' = Ran(GpuSamples(gpuTool))
    /\ UNCHANGED <<cpuVars, fsVars>>

NextGPU == CollectGPU

SpecGPU == InitGPU /\ [][NextGPU]_vars

\* the first output line, as its fields: the first line printed that is not
\* blank (the output is taken without the white space around it), and a
\* single empty field when nothing but white space was printed
IsBlankLine(l) == Len(l) = 1 /\ TrimSpace(l[1]) = <<>>

FirstGpuLine ==
    LET full == {i \in 1..Len(gpuTool.lines) : ~IsBlankLine(gpuTool.lines[i])}
    IN IF full = {} THEN <<<<>>>> ELSE gpuTool.lines[MinOf(full)]

\* the number a field's text stands for, by the text: the values the tool
\* prints, and 0 for everything else
GpuValue(text) ==
    CASE text = GoodField(1) -> Frac(45, 1)
      [] text = GoodField(2) -> Frac(62, 1)
      [] text = GoodField(3) -> Frac(25, 2)
      [] text = GoodField(4) -> Frac(1300, 1)
      [] text = GoodField(5) -> Frac(7, 1)
      [] text \in {<<"9">>, <<" ", "9">>} -> Frac(9, 1)
      [] OTHER -> Frac(0, 1)

SameValue(s, v) == s.den # 0 /\ s.num * v.den = v.num * s.den

\* C6: no sample when the invocation fails or the first output line has
\* fewer than four fields; else exactly the four samples utilization,
\* temperature, frequency, power, from fields 0, 1, 3, 2, each the field's value
\* or 0 when the field is empty, a not-applicable sentinel or no number.
C6_GpuAllOrFour ==
    probe.ran =>
        IF gpuTool.err \/ Len(FirstGpuLine) < 4 THEN probe.ch = <<>>
        ELSE /\ Len(probe.ch) = 4
             /\ probe.ch[1].name = GpuUtilName
             /\ SameValue(probe.ch[1], GpuValue(FirstGpuLine[1]))
             /\ probe.ch[2].name = GpuTempName
             /\ SameValue(probe.ch[2], GpuValue(FirstGpuLine[2]))
             /\ probe.ch[3].name = GpuFreqName
             /\ SameValue(probe.ch[3], GpuValue(FirstGpuLine[4]))
             /\ probe.ch[4].name = GpuPowerName
             /\ SameValue(probe.ch[4], GpuValue(FirstGpuLine[3]))

\* the tool printed "45, [N/A], 12.5, 1300": utilization 45, temperature 0,
\* frequency 1300, power 12.5
C6_Witness ==
    /\ probe.ran
    /\ ~gpuTool.err
    /\ gpuTool.lines = <<<<GoodField(1), <<" ">> \o NaBracketWord,
                           GoodField(3), GoodField(4)>>>>
    /\ Len(probe.ch) = 4
    /\ probe.ch[1].num = 45 * probe.ch[1].den
    /\ probe.ch[2].num = 0
    /\ probe.ch[3].num = 1300 * probe.ch[3].den
    /\ 2 * probe.ch[4].num = 25 * probe.ch[4].den

----------------------------------------------------------------------------
(* NetworkCollector: /sys/class/net *)

monitoredInterfaces ==
    <<"enP7s7", "enp1s0f1np1", "enP2p1s0f1np1", "enp1s0f0np0", "enP2p1s0f0np0",
      "wlP9s9">>

\* an interface of the host that the list does not name
OtherIface == "eth0"

RxBytesName == "network_receive_bytes_total"
TxBytesName == "network_transmit_bytes_total"
RxPacketsName == "network_receive_packets_total"
TxPacketsName == "network_transmit_packets_total"

\* the statistics files in the order Collect reads them
CounterFiles == <<"rx_bytes", "tx_bytes", "rx_packets", "tx_packets">>
CounterNames == <<RxBytesName, TxBytesName, RxPacketsName, TxPacketsName>>

UpText == <<"u", "p", "\n">>
DownText == <<"d", "o", "w", "n", "\n">>
UnknownText == <<"u", "n", "k", "n", "o", "w", "n", "\n">>

\* what the kernel shows of an interface: none of its files when it does not
\* exist, else its operstate
IfaceKinds == {"absent", "down", "unknown", "up"}

\* the counter of file k of the i-th interface
CounterValue(i, k) == i + 2 * k

\* how a statistics file reads: its value, no file, no number, or a number
\* out of range
CounterKinds == {"value", "missing", "garbage", "huge"}

CounterFile(kind, i, k) ==
    CASE kind = "value" -> File(Itoa(CounterValue(i, k)) \o <<"\n">>)
      [] kind = "missing" -> NoFile
      [] kind = "garbage" -> File(Garbage)
      [] OTHER -> File(Itoa(Mod) \o <<"\n">>)

AllValues == [k \in 1..4 |-> "value"]

\* every file holds a value, or one of them does not
CounterProfiles ==
    {AllValues}
    \cup {[AllValues EXCEPT ![k] = "missing"] : k \in 1..4}
    \cup {[AllValues EXCEPT ![4] = "garbage"], [AllValues EXCEPT ![2] = "huge"]}

Iface(kind, profile, i) ==
    [operstate |-> CASE kind = "absent" -> NoFile
                     [] kind = "down" -> File(DownText)
                     [] kind = "unknown" -> File(UnknownText)
                     [] OTHER -> File(UpText),
     statistics |-> [k \in 1..4 |-> IF kind = "absent" THEN NoFile
                                    ELSE CounterFile(profile[k], i, k)]]

IfaceNames == {monitoredInterfaces[i] : i \in 1..Len(monitoredInterfaces)}

IfaceIndex(name) == CHOOSE i \in 1..Len(monitoredInterfaces) : monitoredInterfaces[i] = name

NetTree(kinds, profile) ==
    [n \in IfaceNames \cup {OtherIface} |->
        IF n = OtherIface THEN Iface("up", AllValues, 1)
        ELSE Iface(kinds[IfaceIndex(n)], profile, IfaceIndex(n))]

\* os.ReadFile of a file of an interface's directory
IfaceDir(fs, iface) ==
    IF iface \in DOMAIN fs THEN fs[iface]
    ELSE [operstate |-> NoFile, statistics |-> [k \in 1..4 |-> NoFile]]

\* a slip: every state but "down" counts as up
MutisInterfaceUp(fs, iface) ==
    LET data == IfaceDir(fs, iface).operstate
    IN IF data.err THEN FALSE
       ELSE TrimSpace(data.text) # <<"d", "o", "w", "n">>

isInterfaceUp(fs, iface) ==
    LET data == IfaceDir(fs, iface).operstate
    IN IF data.err THEN FALSE
       ELSE TrimSpace(data.text) = <<"u", "p">>

readSysUint64(f) ==
    IF f.err THEN 0
    ELSE LET v == ParseUint(TrimSpace(f.text))
         IN IF ~v.ok THEN 0 ELSE v.v

\* the four reads and the four sends of one interface
IfaceSamples(fs, iface) ==
    LET st == IfaceDir(fs, iface).statistics
        rxBytes == readSysUint64(st[1])
        txBytes == readSysUint64(st[2])
        rxPackets == readSysUint64(st[3])
        txPackets == readSysUint64(st[4])
    IN <<Sample(RxBytesName, Frac(ToFloat(rxBytes), 1), <<iface>>),
         Sample(TxBytesName, Frac(ToFloat(txBytes), 1), <<iface>>),
         Sample(RxPacketsName, Frac(ToFloat(rxPackets), 1), <<iface>>),
         Sample(TxPacketsName, Frac(ToFloat(txPackets), 1), <<iface>>)>>

\* NetworkCollector.Collect: the loop from the i-th interface of the list on
RECURSIVE NetLoop(_, _, _)
NetLoop(fs, i, ch) ==
    IF i > Len(monitoredInterfaces) THEN ch
    ELSE IF ~isInterfaceUp(fs, monitoredInterfaces[i]) THEN NetLoop(fs, i + 1, ch)
    ELSE NetLoop(fs, i + 1, ch \o IfaceSamples(fs, monitoredInterfaces[i]))

NetSamples(fs) == NetLoop(fs, 1, <<>>)

InitNet ==
    /\ IdleCPU
    /\ thermal = NoZones
    /\ cpufreq = NoCores
    /\ meminfo = <<>>
    /\ gpuTool = <<>>
    /\ \E kinds \in [1..Len(monitoredInterfaces) -> IfaceKinds],
          profile \in CounterProfiles : netfs = NetTree(kinds, profile)
    /\ diskstats = <<>>

CollectNet ==
    /\ ~probe.ran
    /\ probe' = Ran(NetSamples(netfs))
    /\ UNCHANGED <<cpuVars, fsVars>>

NextNet == CollectNet

SpecNet == InitNet /\ [][NextNet]_vars

\* what the tree holds, read off the texts it was built from
ShowsUp(iface) == netfs[iface].operstate = File(UpText)

ShownCounter(iface, k) ==
    LET f == netfs[iface].statistics[k]
        vs == {v \in 0..(2^MantBits - 1) : f = File(Itoa(v) \o <<"\n">>)}
    IN IF vs = {} THEN 0 ELSE CHOOSE v \in vs : TRUE

\* C7: an interface has samples exactly when the list names it and its
\* operstate reads "up"; each such interface has its four samples rx bytes, tx
\* bytes, rx packets, tx packets, labelled with it, 0 standing for a counter
\* that cannot be read or parsed; the interfaces come in the list's order.
C7_NetUpAndListed ==
    probe.ran =>
        LET ups == SelectSeq(monitoredInterfaces, ShowsUp)
        IN /\ \A n \in DOMAIN netfs :
                 (\E j \in 1..Len(probe.ch) : probe.ch[j].labels = <<n>>)
                     <=> (n \in IfaceNames /\ ShowsUp(n))
           /\ Len(probe.ch) = 4 * Len(ups)
           /\ \A j \in 1..Len(ups) : \A k \in 1..4 :
                 probe.ch[4 * (j - 1) + k] =
                     [name |-> CounterNames[k],
                      num |-> ShownCounter(ups[j], k), den |-> 1,
                      labels |-> <<ups[j]>>]

\* enP7s7 up, enp1s0f1np1 down, enP2p1s0f1np1 absent, enp1s0f0np0 with state
\* unknown, wlP9s9 up, tx_bytes missing everywhere: eight samples, those of
\* enP7s7 before those of wlP9s9, tx bytes 0
C7_Witness ==
    /\ probe.ran
    /\ ShowsUp("enP7s7") /\ ShowsUp("wlP9s9") /\ ShowsUp(OtherIface)
    /\ netfs["enp1s0f1np1"].operstate = File(DownText)
    /\ netfs["enP2p1s0f1np1"].operstate = NoFile
    /\ netfs["enp1s0f0np0"].operstate = File(UnknownText)
    /\ netfs["enP2p1s0f0np0"].operstate = File(DownText)
    /\ netfs["enP7s7"].statistics[2] = NoFile
    /\ Len(probe.ch) = 8
    /\ probe.ch[1].labels = <<"enP7s7">> /\ probe.ch[1].num = CounterValue(1, 1)
    /\ probe.ch[2].num = 0
    /\ probe.ch[8].labels = <<"wlP9s9">> /\ probe.ch[8].num = CounterValue(6, 4)

----------------------------------------------------------------------------
(* DiskCollector.collectDiskIO: /proc/diskstats *)

\* if len(fields) < 14
MinDiskFields == 14
\* largest number of lines of a file of several lines
MaxDiskLines == 3

DiskReadsName == "diskio_reads_completed_total"
DiskWritesName == "diskio_writes_completed_total"

physicalPrefixes == <<<<"s", "d">>, <<"n", "v", "m", "e">>, <<"v", "d">>, <<"h", "d">>, <<"x", "v", "d">>, <<"m", "m", "c", "b", "l", "k">>>>
excludePrefixes == <<<<"l", "o", "o", "p">>, <<"r", "a", "m">>, <<"d", "m", "-">>, <<"s", "r">>, <<"f", "d">>>>

\* device names: disks and partitions of the kinds the collector reports,
\* names of the excluded kinds, and names of neither kind
PhysicalNames ==
    {<<"s", "d", "a">>,
     <<"s", "d">>,
     <<"n", "v", "m", "e", "0", "n", "1">>,
     <<"v", "d", "a">>,
     <<"h", "d", "b">>,
     <<"x", "v", "d", "a">>,
     <<"m", "m", "c", "b", "l", "k", "0">>,
     <<"s", "d", "r", "a", "m", "0">>}
ExcludedNames ==
    {<<"l", "o", "o", "p", "0">>,
     <<"r", "a", "m", "0">>,
     <<"d", "m", "-", "1">>,
     <<"s", "r", "0">>,
     <<"f", "d", "0">>,
     <<"l", "o", "o", "p", "s", "d">>}
OtherNames ==
    {<<"z", "r", "a", "m", "0">>,
     <<"m", "d", "0">>,
     <<"n", "v", "m">>,
     <<"s">>,
     <<"d", "m", "0">>,
     <<"S", "D", "A">>,
     <<"x", "s", "d", "a">>}

DiskNames == PhysicalNames \cup ExcludedNames \cup OtherNames

\* a line as its white space separated fields: major, minor, the name, and
\* the counters; the counter at field k (from 0) reads k, so reads completed
\* is 3 and writes completed is 7
DiskLine(name, n, badAt) ==
    [k \in 1..n |-> IF k = 1 THEN Itoa(8)
                    ELSE IF k = 2 THEN Itoa(0)
                    ELSE IF k = 3 THEN name
                    ELSE IF k - 1 \in badAt THEN BadToken
                    ELSE Itoa(k - 1)]

\* one short of the fields needed, just enough, and the 20 of a recent kernel
FieldCounts == {MinDiskFields - 1, MinDiskFields, 20}

\* the fields that may hold no number: none, reads, writes, or another
BadChoices == {{}, {3}, {7}, {4}}

Nvme == <<"n", "v", "m", "e", "0", "n", "1">>
Sda == <<"s", "d", "a">>
Loop0 == <<"l", "o", "o", "p", "0">>
Dm1 == <<"d", "m", "-", "1">>
Zram0 == <<"z", "r", "a", "m", "0">>

\* the lines that files of several lines are made of
FewLines ==
    {DiskLine(Nvme, MinDiskFields, {}), DiskLine(Sda, 20, {7}),
     DiskLine(Loop0, MinDiskFields, {}), DiskLine(Dm1, 20, {}),
     DiskLine(Zram0, MinDiskFields, {}), DiskLine(Sda, MinDiskFields - 1, {})}

DiskFile(e, ls) == [err |-> e, lines |-> ls]

\* strings.HasPrefix over the prefixes from the i-th on
RECURSIVE PrefixLoop(_, _, _)
PrefixLoop(str, prefixes, i) ==
    IF i > Len(prefixes) THEN FALSE
    ELSE IF HasPrefix(str, prefixes[i]) THEN TRUE
    ELSE PrefixLoop(str, prefixes, i + 1)

\* a slip: the loop returns on its first pass
MuthasAnyPrefix(str, prefixes) ==
    IF prefixes = <<>> THEN FALSE ELSE HasPrefix(str, prefixes[1])

hasAnyPrefix(str, prefixes) == PrefixLoop(str, prefixes, 1)

\* the body of the scan loop for one line: the samples it sends
DiskLineSamples(fields) ==
    IF Len(fields) < MinDiskFields THEN <<>>
    ELSE LET device == fields[3]
         IN IF hasAnyPrefix(device, excludePrefixes) THEN <<>>
            ELSE IF ~hasAnyPrefix(device, physicalPrefixes) THEN <<>>
            ELSE LET reads == ParseFloat(fields[4])
                     writes == ParseFloat(fields[8])
                 IN <<Sample(DiskReadsName, reads, <<device>>),
                      Sample(DiskWritesName, writes, <<device>>)>>

RECURSIVE DiskScan(_, _)
DiskScan(lines, ch) ==
    IF lines = <<>> THEN ch
    ELSE DiskScan(Tail(lines), ch \o DiskLineSamples(Head(lines)))

\* DiskCollector.collectDiskIO: the samples sent on ch
collectDiskIO(f) == IF f.err THEN <<>> ELSE DiskScan(f.lines, <<>>)

InitDisk ==
    /\ IdleCPU
    /\ thermal = NoZones
    /\ cpufreq = NoCores
    /\ meminfo = <<>>
    /\ gpuTool = <<>>
    /\ netfs = <<>>
    /\ \/ diskstats \in {DiskFile(TRUE, <<>>), DiskFile(FALSE, <<>>)}
       \/ \E name \in DiskNames, n \in FieldCounts, badAt \in BadChoices :
             diskstats = DiskFile(FALSE, <<DiskLine(name, n, badAt)>>)
       \/ \E len \in 2..MaxDiskLines : \E ls \in [1..len -> FewLines] :
             diskstats = DiskFile(FALSE, ls)

CollectDisk ==
    /\ ~probe.ran
    /\ probe' = Ran(collectDiskIO(diskstats))
    /\ UNCHANGED <<cpuVars, fsVars>>

NextDisk == CollectDisk

SpecDisk == InitDisk /\ [][NextDisk]_vars

\* a line's device is reported: the line has 14 fields or more and the name
\* is one of the physical names of the model, by the lists above
Reported(l) == Len(l) >= 14 /\ l[3] \in PhysicalNames

\* the counter a field shows, 0 when it holds no number
ShownField(l, k) == IF l[k + 1] = Itoa(k) THEN k ELSE 0

\* C8: a line with 14 fields or more yields a reads and a writes sample for
\* its device exactly when the name starts with no excluded prefix and with
\* an allowlisted prefix; every other line yields nothing.
C8_DiskFilter ==
    probe.ran =>
        LET kept == SelectSeq(diskstats.lines, Reported)
        IN /\ Len(probe.ch) = 2 * Len(kept)
           /\ \A j \in 1..Len(kept) :
                 /\ probe.ch[2 * j - 1] =
                        [name |-> DiskReadsName, num |-> ShownField(kept[j], 3),
                         den |-> 1, labels |-> <<kept[j][3]>>]
                 /\ probe.ch[2 * j] =
                        [name |-> DiskWritesName, num |-> ShownField(kept[j], 7),
                         den |-> 1, labels |-> <<kept[j][3]>>]

\* lines for loop0, nvme0n1 and zram0: the two samples of nvme0n1 alone
C8_Witness ==
    /\ probe.ran
    /\ ~diskstats.err
    /\ diskstats.lines = <<DiskLine(Loop0, MinDiskFields, {}),
                           DiskLine(Nvme, MinDiskFields, {}),
                           DiskLine(Zram0, MinDiskFields, {})>>
    /\ Len(probe.ch) = 2
    /\ probe.ch[1].labels = <<Nvme>> /\ probe.ch[1].num = 3
    /\ probe.ch[2].labels = <<Nvme>> /\ probe.ch[2].num = 7

----------------------------------------------------------------------------
(* Properties of Collect when the usage measurement fails *)

\* caller c's call has sent everything it sends
Finished(c) == pc[c] = "done"

\* the usage path of caller c's call failed: the file could not be opened,
\* held no aggregate line or one with fewer than 8 fields (no reading), or a
\* counter field of the line is no unsigned integer
UsagePathFailed(c) == ~loc[c].cur.some \/ ~loc[c].cur.wf

IsUsageSample(s) == s.name = UsageName
IsOtherSample(s) == s.name # UsageName

\* the temperature and frequency samples the trees of the CPU specifications
\* stand for: 1200 MHz and no temperature, or 40 degrees and no frequency
TreeSamplesAre(ch) ==
    IF ~cpufreq[0].err
    THEN /\ Len(ch) = 1
         /\ ch[1].name = FreqName /\ ch[1].num = 1200 * ch[1].den
    ELSE /\ Len(ch) = 1
         /\ ch[1].name = TempName /\ ch[1].num = 40 * ch[1].den

\* C11: a call whose usage path failed (file unreadable, no aggregate line,
\* fewer than 8 fields, or a counter field that is no unsigned integer) sends
\* no usage sample, and the temperature and frequency samples of every call
\* are those of the trees, whatever became of the usage.
C11_FailureSuppressesOnlyUsage ==
    \A c \in Callers :
        Finished(c) =>
            /\ UsagePathFailed(c) => SelectSeq(out[c], IsUsageSample) = <<>>
            /\ TreeSamplesAre(SelectSeq(out[c], IsOtherSample))

\* caller c's call failed before the swap: it has no reading
FailedBeforeSwap(c) == pc[c] \in {"temp", "freq", "done"} /\ ~loc[c].cur.some

\* caller c's call has made the swap, and the call or calls just before it
\* failed before theirs
SwappedAfterFailure(c) ==
    /\ pc[c] \in {"calc", "temp", "freq", "done"}
    /\ loc[c].cur.some
    /\ loc[c].pSeq < loc[c].seq - 1

\* C12: a call that fails before the swap leaves the stored pair as it was,
\* the sums of the last reading that reached the swap ((0, 0) when there was
\* none); the next call that reaches the swap finds that pair and takes its
\* differences against it, not against zero.
C12_FailedCallKeepsBaseline ==
    \A c \in SeqCallers :
        /\ FailedBeforeSwap(c) =>
              /\ prevSeq < loc[c].seq
              /\ prevTotal = lastOK.ct /\ prevIdle = lastOK.ci
        /\ SwappedAfterFailure(c) =>
              LET cur == loc[c].cur
                  before == loc[c].before
                  dTotal == (cur.ct - before.ct) % Mod
                  dIdle == (cur.ci - before.ci) % Mod
              IN /\ loc[c].pTotal = before.ct /\ loc[c].pIdle = before.ci
                 /\ (pc[c] # "calc" /\ before.ct # 0 /\ dTotal # 0) =>
                       /\ out[c][1].name = UsageName
                       /\ out[c][1].den = ToFloat(dTotal)
                       /\ out[c][1].num = ToFloat((dTotal - dIdle) % Mod)

\* the third call has finished: the first stored a nonzero total, the second
\* failed, and the third's usage is a nonzero delta against the first
C12_Witness ==
    \E c \in SeqCallers :
        /\ pc[c] = "done"
        /\ loc[c].cur.some /\ loc[c].before.some
        /\ loc[c].seq = 3 /\ loc[c].pSeq = 1
        /\ loc[c].pTotal # 0
        /\ out[c][1].name = UsageName /\ out[c][1].num # 0

====
